---- MODULE Spec2Model ----
(***************************************************************************)
(* Classroom finder agent: the two inventory query tools, the batch        *)
(* distance ranking tool, address validation, and the /chat endpoint that  *)
(* drives the agent workflow.                                              *)
(*                                                                         *)
(* Nullable values (SQL NULL, Python None) are options: <<>> is NULL/None  *)
(* and <<v>> is the value v.                                               *)
(***************************************************************************)
EXTENDS Integers, Sequences, FiniteSets, TLC

VARIABLES
    inventory,   \* rows of the "Classroom" table, in the store's natural order
    pc,          \* position of the tool harness: "idle" | "returned"
    tool,        \* name of the tool last invoked ("" before any call)
    args,        \* keyword arguments as passed (<<>> for one left out)
    conditions,  \* the WHERE conditions the invocation compiled
    params,      \* the parameter vector the invocation compiled
    fetched,     \* what cur.fetchall() returned (after LIMIT)
    storeFault,  \* where the store raised during the invocation, or "none"
    ret,         \* the (content, artifact) pair the tool returned
    apiKey,      \* whether GOOGLE_MAPS_API_KEY is configured
    matrix,      \* the Google Maps answer to the invocation's request
    candidates,  \* the list object passed as `classrooms`, as the call left it
    results,     \* sort_classrooms_by_distance's local `results`
    authorization, \* the chat request's Authorization header (<<>>: none)
    request,     \* the chat request's messages
    chatPc,      \* position of chat_endpoint: "off" | "received" | "model" |
                 \*   "tools" | "done" | "responded"
    invoked,     \* whether chat_endpoint called workflow.invoke
    messages,    \* the workflow's state["messages"]
    response,    \* what chat_endpoint answered
    model,       \* the chat model the agent was created with ("" : no agent)
    modelCalls   \* the model invocations of the turn: state size, model used

queryVars ==
    <<inventory, pc, tool, args, conditions, params, fetched, storeFault, ret>>

distVars == <<apiKey, matrix, candidates, results>>

chatVars ==
    <<authorization, request, chatPc, invoked, messages, response, model,
      modelCalls>>

vars == <<queryVars, distVars, chatVars>>

(***************************************************************************)
(* Bounds of the model.                                                    *)
(***************************************************************************)
MaxRooms == 12
MaxCandidates == 3
MaxToolCalls == 3

(***************************************************************************)
(* Program constants.                                                      *)
(***************************************************************************)
BASIC_LIMIT == 50
BASIC_SHOWN == 10
AMENITY_LIMIT == 3

Null == <<>>
Some(v) == <<v>>

Min(a, b) == IF a <= b THEN a ELSE b
Max(a, b) == IF a >= b THEN a ELSE b
Take(s, n) == SubSeq(s, 1, Min(n, Len(s)))

(***************************************************************************)
(* The "Classroom" table.                                                  *)
(***************************************************************************)
StyleCols == <<"seminarSetup", "lectureSetup", "groupLearning">>
StrCols == <<"projectionSurface", "computer", "microphone", "zoomRoom",
             "teachingStation", "floorType", "furniture">>
BoolCols == <<"classroomCapture", "groupLearningScreens", "whiteBoard",
              "chalkBoard", "dualBoardScreenUse", "groupLearningBoards",
              "windows", "ac", "filmScreening">>
TimeCols == <<"createdAt", "updatedAt">>

Range(s) == {s[i] : i \in 1..Len(s)}
IndexOf(s, x) == CHOOSE i \in 1..Len(s) : s[i] = x

Columns == {"building", "room", "seatCount"} \cup Range(StyleCols)
             \cup Range(StrCols) \cup Range(BoolCols) \cup Range(TimeCols)

\* The values a nullable boolean, text and timestamp column can hold.
BoolValues == <<Some(TRUE), Some(FALSE), Null>>
StrValues == <<Some("Standard"), Some("Advanced"), Null>>
DateTime(t) == [type |-> "datetime", t |-> t]
TimeValues == <<Some(DateTime(1)), Null, Some(DateTime(2))>>

\* Room kinds the inventories are built from: kind k fixes the building and
\* the seat count, and rotates every nullable column through its values.
Buildings == <<"Baker", "Carson", "Dartmouth", "Kemeny", "Moore", "Reed", "Silsby">>
SeatCounts == <<Some(2), Some(3), Some(13), Some(14), Some(18), Some(19), Null>>
NumKinds == Len(Buildings)

Rot(vals, k, j) == vals[((k + j) % Len(vals)) + 1]

RoomOfKind(k, number) ==
    [c \in Columns |->
        IF c = "building" THEN Buildings[k]
        ELSE IF c = "room" THEN number
        ELSE IF c = "seatCount" THEN SeatCounts[k]
        ELSE IF c \in Range(StyleCols) THEN Rot(BoolValues, k, IndexOf(StyleCols, c))
        ELSE IF c \in Range(StrCols) THEN Rot(StrValues, k, IndexOf(StrCols, c))
        ELSE IF c \in Range(BoolCols) THEN Rot(BoolValues, k, IndexOf(BoolCols, c))
        ELSE Rot(TimeValues, k, IndexOf(TimeCols, c))]

\* An inventory of n rooms whose kinds cycle.
MakeInventory(n) ==
    [i \in 1..n |-> RoomOfKind(((i - 1) % NumKinds) + 1, 100 + i)]

\* Empty, a single room, one more than the refined cap, one room of each
\* kind, and the largest (more than the basic tier shows).
InventorySizes == {0, 1, AMENITY_LIMIT + 1, NumKinds, MaxRooms}

Inventories == {MakeInventory(n) : n \in InventorySizes}

(***************************************************************************)
(* SQL evaluation (three-valued logic) of the compiled conditions.         *)
(***************************************************************************)
IsNotFalse(col) == [col |-> col, op |-> "IS NOT FALSE"]
EqFalse(col) == [col |-> col, op |-> "= FALSE"]
EqParam(col) == [col |-> col, op |-> "= %s"]
GeLeParams(col) == [col |-> col, op |-> ">= %s AND <= %s"]

NParams(c) ==
    IF c.op = "= %s" THEN 1
    ELSE IF c.op = ">= %s AND <= %s" THEN 2
    ELSE 0

And3(a, b) ==
    IF a = "F" \/ b = "F" THEN "F"
    ELSE IF a = "U" \/ b = "U" THEN "U"
    ELSE "T"

Bool3(b) == IF b THEN "T" ELSE "F"

\* The truth value of one condition on a column value `v`, given its parameters.
CondValue(c, ps, v) ==
    IF c.op = "IS NOT FALSE" THEN Bool3(v # Some(FALSE))
    ELSE IF v = Null THEN "U"
    ELSE IF c.op = "= FALSE" THEN Bool3(v = Some(FALSE))
    ELSE IF c.op = "= %s" THEN Bool3(v[1] = ps[1])
    ELSE And3(Bool3(v[1] >= ps[1]), Bool3(v[1] <= ps[2]))

RECURSIVE WhereValue(_, _, _)
WhereValue(conds, ps, row) ==
    IF conds = <<>> THEN "T"
    ELSE LET c == Head(conds)
             k == NParams(c)
         IN And3(CondValue(c, SubSeq(ps, 1, k), row[c.col]),
                 WhereValue(Tail(conds), SubSeq(ps, k + 1, Len(ps)), row))

\* SELECT * FROM "Classroom" [WHERE ...] LIMIT limit
Matching(rows, conds, ps) ==
    SelectSeq(rows, LAMBDA r : WhereValue(conds, ps, r) = "T")

ExecuteFetchall(rows, conds, ps, limit) == Take(Matching(rows, conds, ps), limit)

(***************************************************************************)
(* Python values and the tools' return values.                             *)
(***************************************************************************)
\* Truthiness of an Optional[int] and of an Optional[str] argument: None, 0
\* and "" are falsy.
TruthyInt(opt) == opt # Null /\ opt[1] # 0
TruthyStr(opt) == opt # Null /\ opt[1] # ""

RECURSIVE Concat(_)
Concat(ss) == IF ss = <<>> THEN <<>> ELSE Head(ss) \o Concat(Tail(ss))

IsoFormat(d) == [type |-> "str", iso |-> d.t]

\* _serialize_classrooms: dict(row) with the timestamps turned into ISO strings.
SerializeRow(row) ==
    [c \in DOMAIN row |->
        IF c \in Range(TimeCols) /\ row[c] # Null
        THEN Some(IsoFormat(row[c][1]))
        ELSE row[c]]

_serialize_classrooms(classrooms) ==
    [i \in 1..Len(classrooms) |-> SerializeRow(classrooms[i])]

\* One "- {building} {room}: {seatCount} seats" line of a summary.
DetailLine(classroom) ==
    [building |-> classroom["building"], room |-> classroom["room"],
     seatCount |-> classroom["seatCount"]]

DetailLines(classrooms) ==
    [i \in 1..Len(classrooms) |-> DetailLine(classrooms[i])]

\* f"Found {n} ...:\n\n" followed by the detail lines.
FoundText(text, n, lines) ==
    [kind |-> "found", text |-> text, n |-> n, lines |-> lines]
PlainText(text) == [kind |-> "plain", text |-> text]
\* f"{prefix}{str(e)}"
ErrorText(prefix, e) == [kind |-> "error", text |-> prefix, e |-> e]

\* A tool call that returned the pair (content, artifact).
Returned(content, artifact) ==
    [raised |-> FALSE, content |-> content, artifact |-> artifact]
\* A tool call that let the exception e escape.
Raised(e) == [raised |-> TRUE, content |-> ErrorText("", e), artifact |-> <<>>]

\* Answers of the Distance Matrix service: none (no request was made, or
\* httpx.get / resp.json() raised), a refusal without rows, or one row of
\* elements.
NoMatrix == [fault |-> TRUE, status |-> "", rows |-> <<>>]
MatrixRefused(status) == [fault |-> FALSE, status |-> status, rows |-> <<>>]
MatrixOf(elements) ==
    [fault |-> FALSE, status |-> "OK", rows |-> <<[elements |-> elements]>>]

\* Where the store can raise: psycopg2.connect, cur.execute, cur.fetchall.
Faults == {"connect", "execute", "fetchall"}
NoFault == "none"

(***************************************************************************)
(* Predicate compilation shared by the two query tools.                    *)
(***************************************************************************)
StyleParams == <<"seminar_setup", "lecture_setup", "group_learning">>

\* A `bool = False` parameter: its value when the caller left it out.
DefaultFalse(passed) == IF passed = Null THEN FALSE ELSE passed[1]

\* Variant: a flag that is False compiles to "strictly false".
StyleCondition_StrictFalse(flag, col) ==
    IF flag THEN <<IsNotFalse(col)>> ELSE <<EqFalse(col)>>

\* if <flag>: conditions.append('"<col>" IS NOT FALSE')
StyleCondition(flag, col) == IF flag THEN <<IsNotFalse(col)>> ELSE <<>>

StyleConditions(a) ==
    StyleCondition(DefaultFalse(a.seminar_setup), "seminarSetup")
      \o StyleCondition(DefaultFalse(a.lecture_setup), "lectureSetup")
      \o StyleCondition(DefaultFalse(a.group_learning), "groupLearning")

\* if class_size: '"seatCount" >= %s AND "seatCount" <= %s'
SizeConditions(class_size) ==
    IF TruthyInt(class_size) THEN <<GeLeParams("seatCount")>> ELSE <<>>

\* Variant: the lower bound is not clamped to 1.
SizeRange_Unclamped(n) == <<n - 5, n + 10>>

SizeRange(n) == <<Max(1, n - 5), n + 10>>

SizeParams(class_size) ==
    IF TruthyInt(class_size) THEN SizeRange(class_size[1]) ELSE <<>>

(***************************************************************************)
(* query_classrooms_basic                                                  *)
(***************************************************************************)
BasicConditions(a) == StyleConditions(a) \o SizeConditions(a.class_size)
BasicParams(a) == SizeParams(a.class_size)

\* Variant: every fetched row is returned.
BasicShown_All(classrooms) == classrooms

\* classrooms[:10]
BasicShown(classrooms) == Take(classrooms, BASIC_SHOWN)

\* Variant: the exception is not caught.
BasicOnError_Propagates(e) == Raised(e)

\* except Exception as e: return (f"Error querying classrooms: {str(e)}", [])
BasicOnError(e) == Returned(ErrorText("Error querying classrooms: ", e), <<>>)

\* Variant: the summary lists every fetched row, the payload the first ten.
BasicResult_ListsAll(classrooms) ==
    IF classrooms = <<>>
    THEN Returned(PlainText("No classrooms found matching the basic criteria. Try adjusting the requirements."), <<>>)
    ELSE Returned(FoundText("classrooms", Len(classrooms), DetailLines(classrooms)),
                  _serialize_classrooms(BasicShown(classrooms)))

BasicResult(classrooms) ==
    IF classrooms = <<>>
    THEN Returned(PlainText("No classrooms found matching the basic criteria. Try adjusting the requirements."), <<>>)
    ELSE Returned(FoundText("classrooms", Len(classrooms),
                            DetailLines(BasicShown(classrooms))),
                  _serialize_classrooms(BasicShown(classrooms)))

\* The whole call: the locals it leaves and the value it returns. `fault` is
\* where the store raised, if it did.
query_classrooms_basic(a, store, fault) ==
    LET conds == BasicConditions(a)
        ps == BasicParams(a)
        classrooms == IF fault = NoFault
                      THEN ExecuteFetchall(store, conds, ps, BASIC_LIMIT)
                      ELSE <<>>
    IN [conditions |-> conds, params |-> ps, fetched |-> classrooms,
        storeFault |-> fault,
        ret |-> IF fault # NoFault THEN BasicOnError(fault)
                ELSE BasicResult(classrooms)]

(***************************************************************************)
(* query_classrooms_with_amenities                                         *)
(***************************************************************************)
StrParams == <<"projection_surface", "computer", "microphone", "zoom_room",
               "teaching_station", "floor_type", "furniture">>
BoolParams == <<"classroom_capture", "group_learning_screens", "white_board",
                "chalk_board", "dual_board_screen_use", "group_learning_boards",
                "windows", "ac", "film_screening">>

\* if <param>: '"<col>" = %s'
StrAmenityCondition(v, col) == IF TruthyStr(v) THEN <<EqParam(col)>> ELSE <<>>
StrAmenityParams(v) == IF TruthyStr(v) THEN <<v[1]>> ELSE <<>>

\* Variant: False compiles like True.
BoolAmenityCondition_NoElse(v, col) ==
    IF v # Null THEN <<IsNotFalse(col)>> ELSE <<>>

\* if <param> is not None: '"<col>" IS NOT FALSE' if <param> else '"<col>" = FALSE'
BoolAmenityCondition(v, col) ==
    IF v # Null
    THEN <<IF v[1] THEN IsNotFalse(col) ELSE EqFalse(col)>>
    ELSE <<>>

AmenityConditions(a) ==
    StyleConditions(a) \o SizeConditions(a.class_size)
      \o Concat([i \in 1..Len(StrCols) |->
                    StrAmenityCondition(a[StrParams[i]], StrCols[i])])
      \o Concat([i \in 1..Len(BoolCols) |->
                    BoolAmenityCondition(a[BoolParams[i]], BoolCols[i])])

AmenityParams(a) ==
    SizeParams(a.class_size)
      \o Concat([i \in 1..Len(StrCols) |-> StrAmenityParams(a[StrParams[i]])])

\* except Exception as e: return (f"Error querying classrooms with amenities: ...", [])
AmenityOnError(e) ==
    Returned(ErrorText("Error querying classrooms with amenities: ", e), <<>>)

AmenityResult(classrooms) ==
    IF classrooms = <<>>
    THEN Returned(PlainText("No classrooms found matching all the specified amenities. Consider relaxing some requirements."), <<>>)
    ELSE Returned(FoundText("classroom(s) with your amenities", Len(classrooms),
                            DetailLines(classrooms)),
                  _serialize_classrooms(classrooms))

query_classrooms_with_amenities(a, store, fault) ==
    LET conds == AmenityConditions(a)
        ps == AmenityParams(a)
        classrooms == IF fault = NoFault
                      THEN ExecuteFetchall(store, conds, ps, AMENITY_LIMIT)
                      ELSE <<>>
    IN [conditions |-> conds, params |-> ps, fetched |-> classrooms,
        storeFault |-> fault,
        ret |-> IF fault # NoFault THEN AmenityOnError(fault)
                ELSE AmenityResult(classrooms)]

(***************************************************************************)
(* validate_address and get_distance                                       *)
(***************************************************************************)
\* Answers of the Geocoding service: none (no request, or the request
\* raised), or a status with its results.
NoGeocode == [fault |-> TRUE, status |-> "", results |-> <<>>]
GeocodeOf(status, found) == [fault |-> FALSE, status |-> status, results |-> found]
GeocodeResult(locationType) ==
    [formatted_address |-> "15 Thayer Dr, Hanover, NH 03755, USA",
     geometry |-> [location_type |-> locationType]]

\* The state of `matrix` when no request was made.
NoAnswer == NoMatrix

validate_address(address, key, answer) ==
    IF ~key
    THEN Returned([valid |-> FALSE, error |-> "Google Maps API key not configured"], Null)
    ELSE IF answer.fault
    THEN Returned([valid |-> FALSE, error |-> "request"], Null)
    ELSE IF answer.status # "OK" \/ answer.results = <<>>
    THEN Returned([valid |-> FALSE, input |-> address,
                   error |-> [text |-> "Address not found. API status: ",
                              status |-> answer.status]], Null)
    ELSE Returned([valid |-> TRUE, input |-> address,
                   formatted_address |-> answer.results[1].formatted_address,
                   location_type |-> answer.results[1].geometry.location_type], Null)

get_distance(origin, destination, mode, key, answer) ==
    IF ~key
    THEN Returned(PlainText("Error: Google Maps API key not configured"), Null)
    ELSE IF answer.fault
    THEN Returned(ErrorText("Error: ", "request"), Null)
    ELSE IF answer.status # "OK"
    THEN Returned(ErrorText("Could not find route. API status: ", answer.status), Null)
    ELSE IF answer.rows = <<>> \/ answer.rows[1].elements = <<>>
    THEN Returned(PlainText("Could not find route between these locations. Try using full street addresses instead of building names."), Null)
    ELSE LET elem == answer.rows[1].elements[1]
         IN IF elem.status # "OK"
            THEN Returned(ErrorText("Could not find route between locations. Status: ",
                                    elem.status), Null)
            ELSE Returned([kind |-> "route", text |-> elem.distance.text,
                           time |-> elem.duration.text, mode |-> mode], Null)

(***************************************************************************)
(* sort_classrooms_by_distance                                             *)
(***************************************************************************)
DEFAULT_CAMPUS == "Dartmouth College, Hanover, NH"

\* f"{c.get('building', 'Unknown')}, {DEFAULT_CAMPUS}" for each classroom
Destinations(classrooms) ==
    [i \in 1..Len(classrooms) |->
        [building |-> classrooms[i].building, campus |-> DEFAULT_CAMPUS]]

\* One element of the answer: a route of d metres, or a failed lookup.
RouteFound(d) ==
    [status |-> "OK", distance |-> [value |-> d, text |-> d],
     duration |-> [text |-> d \div 80]]
RouteNotFound(status) == [status |-> status]

\* zip(classrooms, elements)
Zip(xs, ys) == [i \in 1..Min(Len(xs), Len(ys)) |-> <<xs[i], ys[i]>>]

\* {**c, "dist": ..., "dist_text": ..., "time": ...}
WithDistance(c, e) ==
    [building |-> c.building, room |-> c.room, seatCount |-> c.seatCount,
     dist |-> e.distance.value, dist_text |-> e.distance.text,
     time |-> e.duration.text]

\* [... for c, e in zip(classrooms, elements) if e["status"] == "OK"]
RECURSIVE PairOK(_)
PairOK(pairs) ==
    IF pairs = <<>> THEN <<>>
    ELSE (IF Head(pairs)[2].status = "OK"
          THEN <<WithDistance(Head(pairs)[1], Head(pairs)[2])>>
          ELSE <<>>) \o PairOK(Tail(pairs))

\* list.sort(key=lambda x: x["dist"]) is stable: x goes after every element
\* whose key is not greater.
RECURSIVE InsertByDist(_, _)
InsertByDist(sorted, x) ==
    IF sorted = <<>> THEN <<x>>
    ELSE IF Head(sorted).dist <= x.dist
         THEN <<Head(sorted)>> \o InsertByDist(Tail(sorted), x)
         ELSE <<x>> \o sorted

RECURSIVE SortedByDist(_)
SortedByDist(rs) ==
    IF rs = <<>> THEN <<>>
    ELSE InsertByDist(SortedByDist(SubSeq(rs, 1, Len(rs) - 1)), rs[Len(rs)])

\* Variant: the pairs are left in the order of the input.
SortResults_InputOrder(rs) == rs

\* results.sort(key=lambda x: x["dist"])
SortResults(rs) == SortedByDist(rs)

\* f"- {building} {room}: {seatCount} seats ({dist_text}, {time} {mode})"
DistanceLine(c, mode) ==
    [building |-> c.building, room |-> c.room, seatCount |-> c.seatCount,
     dist_text |-> c.dist_text, time |-> c.time, mode |-> mode]

\* The whole call: what it returns, its local `results`, and the list that
\* was passed to it as it is when the call returns (the comprehension builds
\* new dicts in a new list, and only that list is sorted).
sort_classrooms_by_distance(origin, classrooms, mode, key, answer) ==
    IF ~key
    THEN [ret |-> Returned(PlainText("Error: Google Maps API key not configured"), Null),
          results |-> <<>>, classrooms |-> classrooms]
    ELSE IF classrooms = <<>>
    THEN [ret |-> Returned(PlainText("No classrooms to sort."), Null),
          results |-> <<>>, classrooms |-> classrooms]
    ELSE IF answer.fault \/ answer.rows = <<>>
    THEN [ret |-> Returned(ErrorText("Error: ", "request"), Null),
          results |-> <<>>, classrooms |-> classrooms]
    ELSE LET rs == SortResults(PairOK(Zip(classrooms, answer.rows[1].elements)))
         IN [ret |-> Returned(FoundText("classrooms", Len(rs),
                                        [i \in 1..Len(rs) |-> DistanceLine(rs[i], mode)]),
                              Null),
             results |-> rs, classrooms |-> classrooms]

(***************************************************************************)
(* The /chat endpoint and the agent workflow.                              *)
(***************************************************************************)
\* What chat_endpoint answers: a ChatResponse, or an HTTP error.
NoResponse == [status |-> 0]
HTTPException(status_code, detail) == [status |-> status_code, detail |-> detail]
ChatResponse(message, classrooms, toolCalled) ==
    [status |-> 200, message |-> message, classrooms |-> classrooms,
     toolCalled |-> toolCalled]

\* str(e)
StrOf(e) == [str |-> e]

\* ChatOpenAI(model="gpt-5-mini", ...) and ChatOpenAI(model="gpt-5", ...)
basic_model == "gpt-5-mini"
advanced_model == "gpt-5"
NoModel == ""

\* The wrap_model_call middleware: the model for a request, from the number
\* of messages in the state at that moment.
dynamic_model_selection(msgs) ==
    IF Len(msgs) > 10 THEN advanced_model ELSE basic_model

\* create_agent(model, tools=tools, system_prompt=system_prompt): no
\* middleware is passed.
Middleware == <<>>

\* One model invocation of the agent: the middleware in place, if any,
\* overrides the model the agent was created with.
ModelCall(msgs) ==
    [message_count |-> Len(msgs),
     model |-> IF "dynamic_model_selection" \in {Middleware[i] : i \in DOMAIN Middleware}
               THEN dynamic_model_selection(msgs)
               ELSE model]

\* No chat request is being served.
ChatOff ==
    /\ authorization = Null
    /\ request = <<>>
    /\ chatPc = "off"
    /\ invoked = FALSE
    /\ messages = <<>>
    /\ response = NoResponse
    /\ model = NoModel
    /\ modelCalls = <<>>

\* except Exception as e: raise HTTPException(status_code=500, detail=str(e))
ExceptHandler(e) == HTTPException(500, StrOf(e))

\* if not authorization: raise HTTPException(status_code=401, ...)
AuthorizationMissing(header) == ~TruthyStr(header)

\* {"role": msg.role, "content": msg.content}, as the workflow reads it.
MessageOfRole(m) ==
    IF m.role = "user" THEN [type |-> "human", content |-> m.content]
    ELSE IF m.role = "assistant"
         THEN [type |-> "ai", content |-> m.content, tool_calls |-> <<>>]
         ELSE [type |-> "system", content |-> m.content]

InputMessages(req) == [i \in 1..Len(req) |-> MessageOfRole(req[i])]

AIToolCall(name, kwargs) ==
    [type |-> "ai", content |-> [says |-> {}],
     tool_calls |-> <<[name |-> name, args |-> kwargs]>>]
AIReply == [type |-> "ai", content |-> [says |-> {}], tool_calls |-> <<>>]
ToolMessage(name, r) ==
    [type |-> "tool", name |-> name, content |-> r.content, artifact |-> r.artifact]

\* hasattr(msg, "tool_calls") and msg.tool_calls
HasToolCalls(msg) == "tool_calls" \in DOMAIN msg /\ msg.tool_calls # <<>>

\* any(hasattr(msg, "tool_calls") and msg.tool_calls for msg in ...)
ToolCalled(msgs) == \E i \in DOMAIN msgs : HasToolCalls(msgs[i])

\* msg.type == "tool" and hasattr(msg, "artifact") and msg.artifact
HasArtifact(msg) == msg.type = "tool" /\ msg.artifact # <<>>

\* for msg in reversed(...): if <has artifact>: classrooms = msg.artifact; break
RECURSIVE ExtractClassrooms(_)
ExtractClassrooms(msgs) ==
    IF msgs = <<>> THEN Null
    ELSE IF HasArtifact(msgs[Len(msgs)]) THEN Some(msgs[Len(msgs)].artifact)
    ELSE ExtractClassrooms(SubSeq(msgs, 1, Len(msgs) - 1))

\* The ChatResponse built from the workflow's messages.
BuildResponse(msgs) ==
    ChatResponse(msgs[Len(msgs)].content, ExtractClassrooms(msgs), ToolCalled(msgs))

\* The number of tool invocations the model has asked for in this turn.
ToolCallCount(msgs) == Cardinality({i \in DOMAIN msgs : HasToolCalls(msgs[i])})

(***************************************************************************)
(* The arguments the tools are invoked with.                               *)
(***************************************************************************)
ClassSizes == {Null, Some(0), Some(3), Some(8)}
Departments == {Null, Some("Physics")}

\* A style flag is left out, or passed as True or as False.
StyleFlags == {Null, Some(TRUE), Some(FALSE)}

BasicArgs ==
    [seminar_setup : StyleFlags, lecture_setup : StyleFlags,
     group_learning : StyleFlags, class_size : ClassSizes,
     department_name : Departments]

AmenityDefaults ==
    [p \in Range(StrParams) \cup Range(BoolParams) |-> Null]

\* No amenity, or one amenity parameter given.
AmenityChoices ==
    {AmenityDefaults}
      \cup {[AmenityDefaults EXCEPT ![p] = Some(b)] :
                p \in Range(BoolParams), b \in BOOLEAN}
      \cup {[AmenityDefaults EXCEPT ![p] = Some(s)] :
                p \in Range(StrParams), s \in {"", "Standard", "Advanced"}}

AmenityArgs == {b @@ am : b \in BasicArgs, am \in AmenityChoices}

(***************************************************************************)
(* The inputs of the distance ranking and the answers of the service.      *)
(***************************************************************************)
\* Rooms as a search returned them (the keys the tool reads).
CandidateRooms ==
    {[building |-> "Baker", room |-> 101, seatCount |-> Some(2)],
     [building |-> "Carson", room |-> 102, seatCount |-> Some(3)],
     [building |-> "Carson", room |-> 110, seatCount |-> Null]}

SeqsUpTo(S, n) == UNION {[1..k -> S] : k \in 0..n}

CandidateLists == SeqsUpTo(CandidateRooms, MaxCandidates)

Modes == {"walking", "driving"}

Elements ==
    {RouteFound(d) : d \in {240, 800}}
      \cup {RouteNotFound(st) : st \in {"NOT_FOUND", "ZERO_RESULTS"}}

\* One element per destination, or no usable answer at all.
Answers(destinations) ==
    {NoMatrix, MatrixRefused("REQUEST_DENIED")}
      \cup {MatrixOf(es) : es \in [1..Len(destinations) -> Elements]}

\* Addresses as the caller spells them: a short building name, and the full
\* name with town and state, of the same place.
Addresses ==
    {[place |-> "Cummings Hall", spelling |-> "ECSC"],
     [place |-> "Cummings Hall", spelling |-> "Cummings Hall, Hanover, NH 03755"]}

GeocodeAnswers ==
    {NoGeocode, GeocodeOf("ZERO_RESULTS", <<>>), GeocodeOf("OK", <<>>)}
      \cup {GeocodeOf("OK", <<GeocodeResult(t)>>) : t \in {"ROOFTOP", "APPROXIMATE"}}

(***************************************************************************)
(* The query tools as actions: one invocation, from call to return.        *)
(***************************************************************************)
NoCall == [conditions |-> <<>>, params |-> <<>>, fetched |-> <<>>,
           storeFault |-> NoFault, ret |-> Returned(PlainText(""), <<>>)]

InitQuery ==
    /\ inventory \in Inventories
    /\ pc = "idle"
    /\ tool = ""
    /\ args = <<>>
    /\ conditions = <<>>
    /\ params = <<>>
    /\ fetched = <<>>
    /\ storeFault = NoFault
    /\ ret = NoCall.ret
    /\ apiKey = TRUE
    /\ matrix = NoAnswer
    /\ candidates = <<>>
    /\ results = <<>>
    /\ ChatOff

Leave(call) ==
    /\ conditions' = call.conditions
    /\ params' = call.params
    /\ fetched' = call.fetched
    /\ storeFault' = call.storeFault
    /\ ret' = call.ret
    /\ pc' = "returned"
    /\ UNCHANGED inventory

QueryBasic ==
    /\ pc = "idle"
    /\ \E a \in BasicArgs, fault \in Faults \cup {NoFault} :
          /\ tool' = "query_classrooms_basic"
          /\ args' = a
          /\ Leave(query_classrooms_basic(a, inventory, fault))
    /\ UNCHANGED <<distVars, chatVars>>

QueryWithAmenities ==
    /\ pc = "idle"
    /\ \E a \in AmenityArgs, fault \in Faults \cup {NoFault} :
          /\ tool' = "query_classrooms_with_amenities"
          /\ args' = a
          /\ Leave(query_classrooms_with_amenities(a, inventory, fault))
    /\ UNCHANGED <<distVars, chatVars>>

\* The harness takes the result and is ready for the next invocation.
NextCall ==
    /\ pc = "returned"
    /\ tool \in {"query_classrooms_basic", "query_classrooms_with_amenities"}
    /\ pc' = "idle"
    /\ tool' = ""
    /\ args' = <<>>
    /\ conditions' = <<>>
    /\ params' = <<>>
    /\ fetched' = <<>>
    /\ storeFault' = NoFault
    /\ ret' = NoCall.ret
    /\ UNCHANGED <<inventory, distVars, chatVars>>

NextQuery == QueryBasic \/ QueryWithAmenities \/ NextCall

SpecQuery == InitQuery /\ [][NextQuery]_vars

(***************************************************************************)
(* The maps tools as actions: one invocation, from call to return.         *)
(***************************************************************************)
InitDistance ==
    /\ inventory = <<>>
    /\ pc = "idle"
    /\ tool = ""
    /\ args = <<>>
    /\ conditions = <<>>
    /\ params = <<>>
    /\ fetched = <<>>
    /\ storeFault = NoFault
    /\ ret = NoCall.ret
    /\ apiKey \in BOOLEAN
    /\ matrix = NoAnswer
    /\ candidates = <<>>
    /\ results = <<>>
    /\ ChatOff

SortByDistance ==
    /\ pc = "idle"
    /\ \E cls \in CandidateLists, mode \in Modes :
        \E answer \in (IF apiKey /\ cls # <<>>
                       THEN Answers(Destinations(cls)) ELSE {NoAnswer}) :
          LET call == sort_classrooms_by_distance("Baker Library, Hanover NH",
                                                  cls, mode, apiKey, answer)
          IN /\ tool' = "sort_classrooms_by_distance"
             /\ args' = [origin |-> "Baker Library, Hanover NH",
                         classrooms |-> cls, mode |-> mode]
             /\ matrix' = answer
             /\ ret' = call.ret
             /\ results' = call.results
             /\ candidates' = call.classrooms
             /\ pc' = "returned"
    /\ UNCHANGED <<inventory, conditions, params, fetched, storeFault, apiKey,
                   chatVars>>

NextDistanceCall ==
    /\ pc = "returned"
    /\ tool \in {"sort_classrooms_by_distance", "validate_address", "get_distance"}
    /\ pc' = "idle"
    /\ tool' = ""
    /\ args' = <<>>
    /\ ret' = NoCall.ret
    /\ matrix' = NoAnswer
    /\ candidates' = <<>>
    /\ results' = <<>>
    /\ UNCHANGED <<inventory, conditions, params, fetched, storeFault, apiKey,
                   chatVars>>

ValidateAddress ==
    /\ pc = "idle"
    /\ \E address \in Addresses :
        \E answer \in (IF apiKey THEN GeocodeAnswers ELSE {NoAnswer}) :
          /\ tool' = "validate_address"
          /\ args' = [address |-> address]
          /\ matrix' = answer
          /\ ret' = validate_address(address, apiKey, answer)
          /\ pc' = "returned"
    /\ UNCHANGED <<inventory, conditions, params, fetched, storeFault, apiKey,
                   candidates, results, chatVars>>

GetDistance ==
    /\ pc = "idle"
    /\ \E origin \in Addresses, destination \in Addresses, mode \in Modes :
        \E answer \in (IF apiKey THEN Answers(<<destination>>) \cup {MatrixOf(<<>>)}
                       ELSE {NoAnswer}) :
          /\ tool' = "get_distance"
          /\ args' = [origin |-> origin, destination |-> destination, mode |-> mode]
          /\ matrix' = answer
          /\ ret' = get_distance(origin, destination, mode, apiKey, answer)
          /\ pc' = "returned"
    /\ UNCHANGED <<inventory, conditions, params, fetched, storeFault, apiKey,
                   candidates, results, chatVars>>

NextDistance ==
    SortByDistance \/ ValidateAddress \/ GetDistance \/ NextDistanceCall

SpecDistance == InitDistance /\ [][NextDistance]_vars

(***************************************************************************)
(* The chat requests and what the language model asks for.                 *)
(***************************************************************************)
Essentials == {"style", "size", "department"}

UserSays(slots) == [role |-> "user", content |-> [says |-> slots]]
AssistantAsks == [role |-> "assistant", content |-> [says |-> {}]]

\* A conversation in which the user states the three essentials one turn at
\* a time; a request carries the conversation so far.
Conversation ==
    <<UserSays({"style"}), AssistantAsks, UserSays({"size"}), AssistantAsks,
      UserSays({"department"})>>

Requests == {SubSeq(Conversation, 1, k) : k \in {1, 3, 5}}

AuthorizationHeaders == {Null, Some(""), Some("Bearer token")}

NoKwargs ==
    [seminar_setup |-> Null, lecture_setup |-> Null, group_learning |-> Null,
     class_size |-> Null, department_name |-> Null]

LectureFor8 ==
    [NoKwargs EXCEPT !.lecture_setup = Some(TRUE), !.class_size = Some(8),
                     !.department_name = Some("Physics")]

\* The rows the model has last been shown, as it passes them on.
RECURSIVE LastArtifact(_)
LastArtifact(msgs) ==
    IF msgs = <<>> THEN <<>>
    ELSE IF HasArtifact(msgs[Len(msgs)]) THEN msgs[Len(msgs)].artifact
    ELSE LastArtifact(SubSeq(msgs, 1, Len(msgs) - 1))

AsCandidates(rows) ==
    [i \in 1..Len(rows) |->
        [building |-> rows[i]["building"], room |-> rows[i]["room"],
         seatCount |-> rows[i]["seatCount"]]]

\* The tool invocations the model may ask for.
ModelToolCalls(msgs) ==
    {AIToolCall("validate_address", [address |-> a]) : a \in Addresses}
      \cup {AIToolCall("get_distance",
                       [origin |-> a, destination |-> a, mode |-> "walking"]) :
               a \in {x \in Addresses : x.spelling = "ECSC"}}
      \cup {AIToolCall("sort_classrooms_by_distance",
                       [origin |-> "Baker Library, Hanover NH",
                        classrooms |-> AsCandidates(LastArtifact(msgs)),
                        mode |-> "walking"])}
      \cup {AIToolCall("query_classrooms_basic", kw) : kw \in {NoKwargs, LectureFor8}}
      \cup {AIToolCall("query_classrooms_with_amenities",
                       LectureFor8 @@ [AmenityDefaults EXCEPT !["white_board"] = Some(FALSE)])}

\* What running a tool call can return, over the outcomes of the services.
ToolOutcomes(call, store) ==
    IF call.name = "validate_address"
    THEN {validate_address(call.args.address, TRUE, answer) :
             answer \in {GeocodeOf("ZERO_RESULTS", <<>>),
                         GeocodeOf("OK", <<GeocodeResult("ROOFTOP")>>)}}
    ELSE IF call.name = "get_distance"
    THEN {get_distance(call.args.origin, call.args.destination, call.args.mode,
                       TRUE, MatrixOf(<<RouteNotFound("NOT_FOUND")>>))}
    ELSE IF call.name = "sort_classrooms_by_distance"
    THEN {sort_classrooms_by_distance(
              call.args.origin, call.args.classrooms, call.args.mode, TRUE,
              MatrixOf([i \in 1..Len(call.args.classrooms) |-> RouteFound(240)])).ret}
    ELSE IF call.name = "query_classrooms_basic"
    THEN {query_classrooms_basic(call.args, store, fault).ret :
             fault \in {NoFault, "execute"}}
    ELSE {query_classrooms_with_amenities(call.args, store, NoFault).ret}

(***************************************************************************)
(* chat_endpoint as actions.                                               *)
(***************************************************************************)
InitChat ==
    /\ inventory = MakeInventory(NumKinds)
    /\ pc = "workflow"
    /\ tool = ""
    /\ args = <<>>
    /\ conditions = <<>>
    /\ params = <<>>
    /\ fetched = <<>>
    /\ storeFault = NoFault
    /\ ret = NoCall.ret
    /\ apiKey = TRUE
    /\ matrix = NoAnswer
    /\ candidates = <<>>
    /\ results = <<>>
    /\ authorization \in AuthorizationHeaders
    /\ request \in Requests
    /\ chatPc = "received"
    /\ invoked = FALSE
    /\ messages = <<>>
    /\ response = NoResponse
    /\ model \in {basic_model, advanced_model}
    /\ modelCalls = <<>>

\* The authorization check raises inside the try block, and the handler's
\* `except Exception` answers.
RejectUnauthorized ==
    /\ chatPc = "received"
    /\ AuthorizationMissing(authorization)
    /\ response' = ExceptHandler(HTTPException(401, "Authorization header required"))
    /\ chatPc' = "responded"
    /\ UNCHANGED <<queryVars, distVars, authorization, request, invoked, messages,
                   model, modelCalls>>

\* workflow.invoke({"messages": messages}, ...)
InvokeWorkflow ==
    /\ chatPc = "received"
    /\ ~AuthorizationMissing(authorization)
    /\ invoked' = TRUE
    /\ messages' = InputMessages(request)
    /\ chatPc' = "model"
    /\ UNCHANGED <<queryVars, distVars, authorization, request, response,
                   model, modelCalls>>

\* The model asks for a tool invocation.
ModelRequestsTool ==
    /\ chatPc = "model"
    /\ ToolCallCount(messages) < MaxToolCalls
    /\ \E ai \in ModelToolCalls(messages) :
          messages' = Append(messages, ai)
    /\ chatPc' = "tools"
    /\ modelCalls' = Append(modelCalls, ModelCall(messages))
    /\ UNCHANGED <<queryVars, distVars, authorization, request, invoked, response,
                   model>>

\* The tool node runs the invocation the last message asks for.
RunTool ==
    /\ chatPc = "tools"
    /\ LET call == messages[Len(messages)].tool_calls[1]
       IN \E r \in ToolOutcomes(call, inventory) :
             messages' = Append(messages, ToolMessage(call.name, r))
    /\ chatPc' = "model"
    /\ UNCHANGED <<queryVars, distVars, authorization, request, invoked, response,
                   model, modelCalls>>

\* The model answers in text and the workflow returns.
ModelReplies ==
    /\ chatPc = "model"
    /\ messages' = Append(messages, AIReply)
    /\ chatPc' = "done"
    /\ modelCalls' = Append(modelCalls, ModelCall(messages))
    /\ UNCHANGED <<queryVars, distVars, authorization, request, invoked, response,
                   model>>

\* workflow.invoke raises (the model cannot be reached).
WorkflowRaises ==
    /\ chatPc = "model"
    /\ response' = ExceptHandler("model unreachable")
    /\ chatPc' = "responded"
    /\ modelCalls' = Append(modelCalls, ModelCall(messages))
    /\ UNCHANGED <<queryVars, distVars, authorization, request, invoked, messages,
                   model>>

\* return ChatResponse(message=..., classrooms=..., toolCalled=...)
Respond ==
    /\ chatPc = "done"
    /\ response' = BuildResponse(messages)
    /\ chatPc' = "responded"
    /\ UNCHANGED <<queryVars, distVars, authorization, request, invoked, messages,
                   model, modelCalls>>

NextChat ==
    \/ RejectUnauthorized
    \/ InvokeWorkflow
    \/ ModelRequestsTool
    \/ RunTool
    \/ ModelReplies
    \/ WorkflowRaises
    \/ Respond

SpecChat == InitChat /\ [][NextChat]_vars

(***************************************************************************)
(* The whole program: the tools on their own, and behind the endpoint.     *)
(***************************************************************************)
Init == InitQuery \/ InitDistance \/ InitChat

Next == NextQuery \/ NextDistance \/ NextChat

Spec == Init /\ [][Next]_vars

(***************************************************************************)
(* Properties of the query tools.                                          *)
(***************************************************************************)
IsQuery ==
    /\ pc = "returned"
    /\ tool \in {"query_classrooms_basic", "query_classrooms_with_amenities"}

RECURSIVE ParamOffset(_, _)
ParamOffset(conds, i) ==
    IF i = 1 THEN 0 ELSE NParams(conds[i - 1]) + ParamOffset(conds, i - 1)

\* The parameters the i-th compiled condition consumes.
CondParams(i) ==
    SubSeq(params, ParamOffset(conditions, i) + 1,
           ParamOffset(conditions, i) + NParams(conditions[i]))

HasCondition(col) == \E i \in DOMAIN conditions : conditions[i].col = col

\* Whether the compiled predicate lets a room through as far as its value v
\* of column col is concerned.
FieldAdmits(col, v) ==
    \A i \in DOMAIN conditions :
        conditions[i].col = col => CondValue(conditions[i], CondParams(i), v) = "T"

C2_BoolAmenities ==
    (pc = "returned" /\ tool = "query_classrooms_with_amenities") =>
        \A i \in DOMAIN BoolParams :
            LET passed == args[BoolParams[i]]
                col == BoolCols[i]
            IN /\ passed = Some(TRUE) =>
                    /\ \A v \in Range(BoolValues) :
                          FieldAdmits(col, v) <=> v # Some(FALSE)
                    /\ \A k \in DOMAIN fetched : fetched[k][col] # Some(FALSE)
               /\ passed = Some(FALSE) =>
                    /\ \A v \in Range(BoolValues) :
                          FieldAdmits(col, v) <=> v = Some(FALSE)
                    /\ \A k \in DOMAIN fetched : fetched[k][col] = Some(FALSE)
               /\ passed = Null => ~HasCondition(col)

\* A refined query asking for no whiteboard fetched a room, while the
\* inventory holds rooms whose whiteboard field is NULL and true.
C2_Witness ==
    /\ pc = "returned"
    /\ tool = "query_classrooms_with_amenities"
    /\ args.white_board = Some(FALSE)
    /\ fetched # <<>>
    /\ \E k \in DOMAIN inventory : inventory[k]["whiteBoard"] = Null
    /\ \E k \in DOMAIN inventory : inventory[k]["whiteBoard"] = Some(TRUE)

\* C3: for a size target n >= 1, in both tiers, the compiled seat-count
\* condition admits exactly the seat counts s with max(1, n-5) <= s <= n+10;
\* no fetched room has n-6 or n+11 seats.
C3_SizeRange ==
    (IsQuery /\ args.class_size # Null /\ args.class_size[1] >= 1) =>
        LET n == args.class_size[1] IN
        /\ \A s \in 0..(n + 12) :
              FieldAdmits("seatCount", Some(s))
                  <=> (Max(1, n - 5) <= s /\ s <= n + 10)
        /\ ~FieldAdmits("seatCount", Null)
        /\ \A k \in DOMAIN fetched :
              fetched[k]["seatCount"] \notin {Null, Some(n - 6), Some(n + 11)}

\* A basic query for 8 students over an inventory with rooms of 2, 3, 18 and
\* 19 seats fetched the rooms of 3 and 18 seats.
C3_Witness ==
    /\ IsQuery
    /\ tool = "query_classrooms_basic"
    /\ args.class_size = Some(8)
    /\ \A s \in {2, 3, 18, 19} :
          \E k \in DOMAIN inventory : inventory[k]["seatCount"] = Some(s)
    /\ \A s \in {3, 18} :
          \E k \in DOMAIN fetched : fetched[k]["seatCount"] = Some(s)

\* Whether a payload row is the store's row (timestamps aside).
SameRoom(payloadRow, row) ==
    \A c \in Columns \ Range(TimeCols) : payloadRow[c] = row[c]

\* C4: the basic tier's payload has at most 10 rows, the refined tier's at
\* most 3, and the payload is a prefix, in the store's order, of the rooms
\* matching the compiled predicate.
C4_PayloadCaps ==
    IsQuery =>
        LET matching == Matching(inventory, conditions, params) IN
        /\ tool = "query_classrooms_basic" => Len(ret.artifact) <= 10
        /\ tool = "query_classrooms_with_amenities" => Len(ret.artifact) <= 3
        /\ Len(ret.artifact) <= Len(matching)
        /\ \A i \in DOMAIN ret.artifact : SameRoom(ret.artifact[i], matching[i])

\* A basic query matched more than 10 rooms and returned 10 of them.
C4_Witness ==
    /\ IsQuery
    /\ tool = "query_classrooms_basic"
    /\ Len(Matching(inventory, conditions, params)) > 10
    /\ Len(ret.artifact) = 10

\* C5 (as stated): a search that returns a non-empty payload returns a
\* summary with a count and no per-room detail line.
C5_SummaryAggregateOnly ==
    (IsQuery /\ ret.artifact # <<>>) =>
        /\ ret.content.kind = "found"
        /\ ret.content.lines = <<>>

\* C5 (amended): a search that returns a non-empty payload returns a summary
\* with a count followed by exactly one detail line (building, room, seat
\* count) per row of the payload, in the payload's order.
C5_SummaryListsPayload ==
    (IsQuery /\ ret.artifact # <<>>) =>
        /\ ret.content.kind = "found"
        /\ ret.content.n >= 1
        /\ Len(ret.content.lines) = Len(ret.artifact)
        /\ \A i \in DOMAIN ret.artifact :
              /\ ret.content.lines[i].building = ret.artifact[i]["building"]
              /\ ret.content.lines[i].room = ret.artifact[i]["room"]
              /\ ret.content.lines[i].seatCount = ret.artifact[i]["seatCount"]

\* A basic query that fetched more rooms than it shows returned a payload.
C5_Witness ==
    /\ IsQuery
    /\ tool = "query_classrooms_basic"
    /\ Len(fetched) > Len(ret.artifact)
    /\ Len(ret.artifact) > 1

\* C9: in both tiers, when the store raises while connecting, executing or
\* fetching, the tool raises nothing: it returns an error summary and the
\* empty row list.
C9_StoreErrorsCaught ==
    (IsQuery /\ storeFault # NoFault) =>
        /\ ~ret.raised
        /\ ret.content.kind = "error"
        /\ ret.artifact = <<>>

\* C12: a basic query that finds at least one room states in its summary
\* ("Found n classrooms") the number of rows of the payload it returns with
\* it, also when more than 10 rooms match.
C12_SummaryCountIsPayloadRows ==
    (IsQuery /\ tool = "query_classrooms_basic" /\ fetched # <<>>) =>
        /\ ret.content.kind = "found"
        /\ ret.content.n = Len(ret.artifact)

\* A basic query over a non-empty inventory whose execute raised.
C9_Witness ==
    /\ IsQuery
    /\ tool = "query_classrooms_basic"
    /\ storeFault = "execute"
    /\ inventory # <<>>
    /\ conditions # <<>>

(***************************************************************************)
(* Properties of the distance ranking.                                     *)
(***************************************************************************)
IsSort == pc = "returned" /\ tool = "sort_classrooms_by_distance"

\* The positions of the input whose lookup succeeded.
LookedUpOK ==
    {i \in DOMAIN args.classrooms :
        /\ matrix.rows # <<>>
        /\ i \in DOMAIN matrix.rows[1].elements
        /\ matrix.rows[1].elements[i].status = "OK"}

\* The entries of the returned text (none when it is not a "Found ..." text).
Entries == IF ret.content.kind = "found" THEN ret.content.lines ELSE <<>>

\* A one-to-one pairing of the entries with the successful lookups.
IsPairing(f) ==
    /\ \A i, j \in DOMAIN f : i # j => f[i] # f[j]
    /\ \A k \in DOMAIN f :
          /\ Entries[k].building = args.classrooms[f[k]].building
          /\ Entries[k].room = args.classrooms[f[k]].room
          /\ Entries[k].seatCount = args.classrooms[f[k]].seatCount
          /\ results[k].dist = matrix.rows[1].elements[f[k]].distance.value
          /\ Entries[k].dist_text = matrix.rows[1].elements[f[k]].distance.text

\* C6: the ranking's output has exactly one entry per room whose lookup
\* succeeded and none for a room whose lookup failed, the entries are in
\* ascending order of the raw distance, and the list passed in is unchanged
\* (it still holds the rooms whose lookup failed).
C6_DistanceRanking ==
    IsSort =>
        /\ Len(Entries) = Cardinality(LookedUpOK)
        /\ Len(results) = Len(Entries)
        /\ \E f \in [DOMAIN Entries -> LookedUpOK] : IsPairing(f)
        /\ \A i, j \in DOMAIN results : i < j => results[i].dist <= results[j].dist
        /\ candidates = args.classrooms

\* Three rooms, the first farther than the second and the third not found:
\* two entries came back.
C6_Witness ==
    /\ IsSort
    /\ Len(args.classrooms) = 3
    /\ matrix.rows # <<>>
    /\ matrix.rows[1].elements[1].status = "OK"
    /\ matrix.rows[1].elements[2].status = "OK"
    /\ matrix.rows[1].elements[3].status # "OK"
    /\ matrix.rows[1].elements[1].distance.value
          > matrix.rows[1].elements[2].distance.value
    /\ Len(Entries) = 2
    /\ Len(candidates) = 3

(***************************************************************************)
(* Properties of the chat endpoint and the agent workflow.                 *)
(***************************************************************************)
\* The positions of the tool messages of one tool in the turn.
RanTool(name) ==
    {i \in DOMAIN messages : messages[i].type = "tool" /\ messages[i].name = name}

\* The invocation a tool message answers: the call of the message before it.
CallOf(i) == messages[i - 1].tool_calls[1]

\* Validation attempts i and j directly follow each other.
InARow(i, j) ==
    /\ i < j
    /\ ~\E m \in RanTool("validate_address") : i < m /\ m < j

\* The lookups (validate_address, get_distance) made for a place.
LookupsFor(place) ==
    {i \in RanTool("validate_address") : CallOf(i).args.address.place = place}
      \cup {i \in RanTool("get_distance") :
               \/ CallOf(i).args.origin.place = place
               \/ CallOf(i).args.destination.place = place}

\* C7: within one turn, once address validation has failed twice in a row
\* for the same logical address, a next validation attempt is not for an
\* address string already tried in those two, and no logical address gets
\* more than three lookup attempts.
C7_ValidationRetryCeiling ==
    /\ \A i, j, k \in RanTool("validate_address") :
          (/\ InARow(i, j)
           /\ InARow(j, k)
           /\ CallOf(i).args.address.place = CallOf(j).args.address.place
           /\ ~messages[i].content.valid
           /\ ~messages[j].content.valid)
          => /\ CallOf(k).args.address # CallOf(i).args.address
             /\ CallOf(k).args.address # CallOf(j).args.address
    /\ \A a \in Addresses : Cardinality(LookupsFor(a.place)) <= 3

\* What the user has stated so far in the conversation.
Stated ==
    UNION {messages[i].content.says :
              i \in {m \in DOMAIN messages : messages[m].type = "human"}}

\* C8: the basic query runs only once a style, a size and a department have
\* all been stated in the conversation, and never without a size or without
\* any style flag.
C8_BasicQueryAfterEssentials ==
    \A i \in RanTool("query_classrooms_basic") :
        /\ Essentials \subseteq Stated
        /\ TruthyInt(CallOf(i).args.class_size)
        /\ \E f \in Range(StyleParams) : CallOf(i).args[f] # Null

\* C10: a chat request without an Authorization header is answered before
\* the workflow is invoked, with status 401 "Authorization header required".
C10_MissingAuthorizationIs401 ==
    (chatPc = "responded" /\ authorization = Null) =>
        /\ ~invoked
        /\ response = HTTPException(401, "Authorization header required")

\* The positions of the search results (either query tool) of the turn.
Searches ==
    RanTool("query_classrooms_basic") \cup RanTool("query_classrooms_with_amenities")

LastSearch == CHOOSE i \in Searches : \A j \in Searches : j <= i

\* C13: the rows of a chat response are the artifact of the most recent
\* search of the turn; when that search returned no rows or an error the
\* response carries no rows, not those of an earlier search; and when no
\* tool was invoked the rows are absent.
C13_RowsOfMostRecentSearch ==
    (chatPc = "responded" /\ response.status = 200) =>
        /\ Searches # {} =>
              IF messages[LastSearch].artifact = <<>>
              THEN response.classrooms \in {Null, Some(<<>>)}
              ELSE response.classrooms = Some(messages[LastSearch].artifact)
        /\ ~response.toolCalled => response.classrooms = Null

\* C11: every model invocation uses the model chosen from the number of
\* messages of the conversation at that moment: the higher-capability model
\* if and only if there are more than 10 (the lower-cost model at 10, the
\* higher-capability one at 11).
C11_ModelChosenByLength ==
    \A i \in DOMAIN modelCalls :
        modelCalls[i].model = advanced_model <=> modelCalls[i].message_count > 10

====
